---- MODULE Spec2Model ----
(***************************************************************************)
(* recipys.collections.bidirectionaliter.BiDirectionalIter: an iterator    *)
(* over a list that can be stepped indefinitely in both directions.        *)
(*                                                                         *)
(* The state is one BiDirectionalIter object (its four attributes), the    *)
(* outcome of the last call made on it, and the record a caller keeps of   *)
(* the most recent calls of next().                                        *)
(*                                                                         *)
(* recipys.sphinx.sqlalchemy.ignore_getattr: the autodoc-skip-member       *)
(* handler that replaces attributes whose access fails by a stub.  Its     *)
(* state is the inspected object, the member name, the bound map and the   *)
(* outcome of the last call; it runs under its own specification.          *)
(***************************************************************************)
EXTENDS Integers, Sequences, FiniteSets

\* ---------------------------------------------------------------- bounds

\* Longest list handed to the constructor.
MaxLen == 3

\* Number of next() calls the caller's record keeps (a sliding window).
MaxCalls == 6

\* How far outside [0, len) a starting_index handed to the constructor lies.
MaxOff == 1

\* The values a list holds.
Elems == {"rick", "morty", "summer"}

\* The lists handed to the constructor, the empty list included.
Lists == UNION {[1..n -> Elems] : n \in 0..MaxLen}

\* The starting_index values handed to the constructor.
StartIndexes == (0 - MaxOff)..(MaxLen - 1 + MaxOff)

\* ------------------------------------------------------ Python semantics

\* Python's None: what __init__ and the two setters return.
None == "None"

\* A call that returned v.
Return(op, v) == [op |-> op, kind |-> "return", value |-> v]

\* A call that raised exception e.
Raise(op, e) == [op |-> op, kind |-> "raise", value |-> e]

\* C-style remainder, truncating toward zero: negative for a negative a.
TruncMod(a, b) == IF a >= 0 THEN a - b * (a \div b) ELSE 0 - ((0 - a) - b * ((0 - a) \div b))

\* Python's a % b for b > 0: a - b * floor(a / b), in [0, b).
PyMod(a, b) == a - b * (a \div b)

\* Python's els[i]: 0-based, a negative i counts from the end, IndexError
\* outside [-len, len).
PyGetItem(op, els, i) ==
    IF i >= 0 /\ i < Len(els) THEN Return(op, els[i + 1])
    ELSE IF i < 0 /\ i >= 0 - Len(els) THEN Return(op, els[Len(els) + i + 1])
    ELSE Raise(op, "IndexError")

\* ----------------------------------------------------------------- state

VARIABLES
    elements,   \* self._elements
    index,      \* self._index
    direction,  \* self._direction
    length,     \* self._length
    last,       \* the last call made and its outcome
    history,    \* the caller's record of the latest next() calls, oldest first
    base        \* self._index before the oldest call in history

vars == <<elements, index, direction, length, last, history, base>>

\* ------------------------------------- recipys.sphinx.sqlalchemy: state

VARIABLES
    obj,                \* the inspected object: each attribute name's slot
    name,               \* the member name the event was fired for
    ignore_errors_for,  \* the map bound with functools.partial in conf.py
    hret                \* the outcome of the last ignore_getattr call

svars == <<obj, name, ignore_errors_for, hret>>

\* The attribute names an inspected object may have or be asked for.
AttrNames == {"start_time_utc", "end_time_utc"}

\* The member names the event is fired for; only the first is ever a key.
MemberNames == {"UTCTimeMixin", "DumbClass"}

\* The docstrings of the attributes.
Docs == {"Return the start time at UTC as text.", "Return the end time."}

\* An attribute the object does not have: getattr raises AttributeError.
Absent == [where |-> "absent", access |-> "AttributeError", doc |-> None, stub |-> FALSE]

\* An attribute slot: where the attribute is found (the object's own
\* __dict__, or a base class's), what getattr(obj, name) does (the
\* descriptor runs on access), its docstring, and whether it is the stub.
Slots ==
    {Absent} \cup
    [where : {"own", "inherited"}, access : {"ok", "AttributeError", "OtherError"},
     doc : Docs, stub : {FALSE}]

\* No documentation build is running.
SphinxIdle ==
    /\ obj = [a \in AttrNames |-> Absent]
    /\ name = "DumbClass"
    /\ ignore_errors_for = << >>
    /\ hret = Return("ignore_getattr", None)

\* ------------------------------------------------- BiDirectionalIter

\* A constructor that validates its arguments.
CheckedInit(els, starting_index) ==
    IF Len(els) = 0 \/ starting_index < 0 \/ starting_index >= Len(els)
    THEN [elements |-> els, index |-> starting_index, direction |-> 1,
          length |-> Len(els), outcome |-> Raise("__init__", "InvalidArgument")]
    ELSE [elements |-> els, index |-> starting_index, direction |-> 1,
          length |-> Len(els), outcome |-> Return("__init__", None)]

\* BiDirectionalIter.__init__(elements, starting_index): the attributes it
\* sets and its outcome.  It checks nothing and raises nothing.
PyInit(els, starting_index) ==
    [elements |-> els, index |-> starting_index, direction |-> 1,
     length |-> Len(els), outcome |-> Return("__init__", None)]

Init ==
    \E els \in Lists, starting_index \in StartIndexes :
        LET self == PyInit(els, starting_index) IN
        /\ elements = self.elements
        /\ index = self.index
        /\ direction = self.direction
        /\ length = self.length
        /\ last = self.outcome
        /\ history = << >>
        /\ base = self.index
        /\ SphinxIdle

\* The caller's record with one more call, the oldest dropped when full.
Record(h, e) == IF Len(h) < MaxCalls THEN Append(h, e) ELSE Append(Tail(h), e)

\* self._index before the oldest call of the record Record(h, e) returns.
RecordBase(h, b) == IF Len(h) < MaxCalls THEN b ELSE h[1].index

\* A step that does not wrap around.
NoWrapIndex(i, d, n) == i + d

\* A step that ignores the direction.
ForwardOnlyIndex(i, d, n) == PyMod(i + 1, n)

\* A step with the remainder of a language that truncates toward zero.
TruncIndex(i, d, n) == TruncMod(i + d, n)

\* (self._index + self._direction) % self._length, for self._length > 0.
NextIndex(i, d, n) == PyMod(i + d, n)

\* next() returning the element at the cursor before the update.
StaleElement(els, old, new) == PyGetItem("next", els, old)

\* self._elements[self._index], read after self._index was assigned.
NextElement(els, old, new) == PyGetItem("next", els, new)

\* BiDirectionalIter.next().  With self._length = 0 the modulo raises
\* ZeroDivisionError before self._index is assigned.
next ==
    /\ IF length = 0
       THEN /\ index' = index
            /\ last' = Raise("next", "ZeroDivisionError")
       ELSE /\ index' = NextIndex(index, direction, length)
            /\ last' = NextElement(elements, index, index')
    /\ history' = Record(history, [direction |-> direction, index |-> index', outcome |-> last'])
    /\ base' = RecordBase(history, base)
    /\ UNCHANGED <<elements, direction, length>>
    /\ UNCHANGED svars

\* A setter that flips the direction instead of setting it.
ToggleDirection ==
    /\ direction' = 0 - direction
    /\ last' = Return("set_direction_forward", None)
    /\ UNCHANGED <<elements, index, length, history, base>>
    /\ UNCHANGED svars

\* BiDirectionalIter.set_direction_forward()
set_direction_forward ==
    /\ direction' = 1
    /\ last' = Return("set_direction_forward", None)
    /\ UNCHANGED <<elements, index, length, history, base>>
    /\ UNCHANGED svars

\* A setter that also moves the cursor, to the end of the list.
RewindingReverse ==
    /\ direction' = 0 - 1
    /\ index' = length - 1
    /\ last' = Return("set_direction_reverse", None)
    /\ UNCHANGED <<elements, length, history, base>>
    /\ UNCHANGED svars

\* BiDirectionalIter.set_direction_reverse()
set_direction_reverse ==
    /\ direction' = 0 - 1
    /\ last' = Return("set_direction_reverse", None)
    /\ UNCHANGED <<elements, index, length, history, base>>
    /\ UNCHANGED svars

Next == next \/ set_direction_forward \/ set_direction_reverse

Spec == Init /\ [][Next]_vars

\* ------------------------------------------------- reading the record

\* The set of values a list holds.
Range(els) == {els[k] : k \in 1..Len(els)}

\* self._index before the p-th recorded call.
IndexBefore(p) == IF p = 1 THEN base ELSE history[p - 1].index

\* The p-th recorded call returned (did not raise).
Returned(p) == history[p].outcome.kind = "return"

\* The values returned by recorded calls p+1 .. p+k, in order.
Outputs(p, k) == [j \in 1..k |-> history[p + j].outcome.value]

\* Recorded calls p+1 .. p+k were all made with direction d.
AllDirection(p, k, d) == \A j \in 1..k : history[p + j].direction = d

\* A sequence in reverse order.
Reverse(s) == [j \in 1..Len(s) |-> s[Len(s) + 1 - j]]

\* The cursor is a valid position of the list.
InRange(i) == i >= 0 /\ i < length

\* ----------------------------------------------------------------- C1

\* C1: for a list of length N >= 1 and a starting index in [0, N), after any
\* interleaving of next, set_direction_forward and set_direction_reverse the
\* cursor satisfies 0 <= index < N, and every next() returned an element of
\* the list.
C1_IndexInRange ==
    (length >= 1 /\ InRange(base)) =>
        /\ InRange(index)
        /\ \A p \in 1..Len(history) :
            /\ InRange(history[p].index)
            /\ Returned(p)
            /\ history[p].outcome.value \in Range(elements)

\* C1 witness: a valid iterator over three elements whose recorded calls
\* wrapped around the end going forward and around the start going back.
C1_Witness ==
    /\ length = 3 /\ InRange(base) /\ InRange(index)
    /\ \E p \in 1..Len(history) :
        IndexBefore(p) = 2 /\ history[p].direction = 1 /\ history[p].index = 0
    /\ \E p \in 1..Len(history) :
        IndexBefore(p) = 0 /\ history[p].direction = 0 - 1 /\ history[p].index = 2

\* ----------------------------------------------------------------- C2

C3_EmptyConstructionFails ==
    Len(elements) = 0 => last = Raise("__init__", "InvalidArgument")

\* ----------------------------------------------------------------- C4

C5_NoOperationFails ==
    last.op \in {"next", "set_direction_forward", "set_direction_reverse"} =>
        last.kind = "return"

\* ----------------------------------------------------------------- C6

SameStartTraversals(p, q) ==
    /\ length >= 1
    /\ InRange(IndexBefore(p + 1))
    /\ IndexBefore(q + 1) = IndexBefore(p + 1)
    /\ AllDirection(p, length, 1)
    /\ AllDirection(q, length, 0 - 1)

ForwardThenReverse(p) ==
    /\ length >= 1
    /\ InRange(IndexBefore(p + 1))
    /\ history[p + 1].direction = 1
    /\ history[p + 2].direction = 0 - 1

\* The round trip of C8: the step after the reversal returns S[i], leaves
\* the cursor at i, and lands one position before the forward step's cursor.
RoundTrip(p) ==
    LET i == IndexBefore(p + 1) IN
    /\ history[p + 1].outcome = Return("next", elements[((i + 1) % length) + 1])
    /\ history[p + 2].outcome = Return("next", elements[i + 1])
    /\ history[p + 2].index = i
    /\ history[p + 2].index = (history[p + 1].index - 1) % length

\* C8 as stated: from any index i, one forward step followed by
\* set_direction_reverse and one more step returns S[i] and leaves the cursor
\* at i; the step after the reversal does not yield again the element just
\* produced (the cursor is not where the forward step left it) but the one a
\* single position away in the new direction.
C8_RoundTripNeverRepeats ==
    \A p \in 0..(Len(history) - 2) :
        ForwardThenReverse(p) =>
            /\ RoundTrip(p)
            /\ history[p + 2].index # history[p + 1].index

\* C8 as amended: from any index i, one forward step followed by
\* set_direction_reverse and one more step returns S[i] and leaves the cursor
\* at i, one position (mod N) away in the new direction; when N >= 2 that is
\* not the element just produced, and when N = 1 it is the single element
\* again.
C8_RoundTrip ==
    \A p \in 0..(Len(history) - 2) :
        ForwardThenReverse(p) =>
            /\ RoundTrip(p)
            /\ length >= 2 => history[p + 2].index # history[p + 1].index
            /\ length = 1 => history[p + 2].outcome = history[p + 1].outcome

\* C8 witness: ['rick', 'morty'] from index 0: a forward step yields morty,
\* then after set_direction_reverse a step yields rick at index 0.
C8_Witness ==
    /\ elements = <<"rick", "morty">>
    /\ Len(history) = 2 /\ base = 0
    /\ ForwardThenReverse(0)
    /\ Outputs(0, 2) = <<"morty", "rick">>
    /\ index = 0 /\ direction = 0 - 1

\* ----------------------------------------------------------------- C9

\* Recorded calls p+1..p+k were made in direction d from a valid index and
\* calls p+k+1..p+2k in the opposite direction.
Retrace(p, k, d) ==
    /\ length >= 1
    /\ InRange(IndexBefore(p + 1))
    /\ AllDirection(p, k, d)
    /\ AllDirection(p + k, k, 0 - d)

\* C9: after k >= 1 steps in one direction from index i with outputs
\* o_1..o_k, flipping the direction and taking k more steps yields o_(k-1),
\* ..., o_1 and then S[i], and ends with the cursor at i.
C9_Retrace ==
    \A p \in 0..Len(history), k \in 1..Len(history), d \in {1, 0 - 1} :
        (p + 2 * k <= Len(history) /\ Retrace(p, k, d)) =>
            /\ \A j \in 1..(2 * k) : Returned(p + j)
            /\ \A j \in 1..(k - 1) :
                history[p + k + j].outcome.value = history[p + k - j].outcome.value
            /\ history[p + 2 * k].outcome.value = elements[IndexBefore(p + 1) + 1]
            /\ history[p + 2 * k].index = IndexBefore(p + 1)

\* C9 witness: three distinct elements from index 2: three forward steps
\* (rick, morty, summer), then three reverse steps (morty, rick, summer) end
\* at index 2.
C9_Witness ==
    /\ elements = <<"rick", "morty", "summer">>
    /\ Len(history) = 6 /\ base = 2
    /\ Retrace(0, 3, 1)
    /\ Outputs(0, 6) = <<"rick", "morty", "summer", "morty", "rick", "summer">>
    /\ index = 2

\* ---------------------------------------------------------------- C10

\* The caller of the module docstring's example, "while True: print
\* it.next()": next() is called again and again.
FairSpec == Spec /\ WF_vars(next)

\* In this state all three methods can be called, and the last call of
\* next(), if any, yielded an element of the list.
StepYields ==
    /\ ENABLED next
    /\ ENABLED set_direction_forward
    /\ ENABLED set_direction_reverse
    /\ last.op = "next" => (last.kind = "return" /\ last.value \in Range(elements))

\* Under stepping that is from some point on always in direction d, every
\* index of the list is visited infinitely often.
VisitsEveryIndex ==
    \A d \in {1, 0 - 1} : \A k \in 0..(MaxLen - 1) :
        <>[](direction = d) => []<>(k >= length \/ index = k)

\* C10: the iteration never ends on its own: in every reachable state next()
\* is enabled and yields an element (it never signals exhaustion), both
\* direction setters are enabled and there is no terminal state; under
\* repeated forward (or repeated reverse) stepping every index of the list
\* is visited infinitely often.
C10_NeverEnds == []StepYields /\ VisitsEveryIndex

\* ---------------------------------------------------------------- C11

\* The default of __init__'s parameter starting_index.
DefaultStartingIndex == 0

\* The record holds every next() call since BiDirectionalIter(['rick',
\* 'morty']) was constructed with the default starting index.
DocstringIterator ==
    /\ elements = <<"rick", "morty">>
    /\ Len(history) < MaxCalls
    /\ base = DefaultStartingIndex

\* C11: as the module docstring's example states, repeated next() on
\* BiDirectionalIter(['rick', 'morty']) prints rick, morty, rick, morty, ...
\* (the first value is 'rick'), and after set_direction_reverse (called
\* where the example's output stops, after an even number of values) the
\* output is 'morty' and then 'rick'.
C11_DocstringExample ==
    DocstringIterator =>
        /\ \A p \in 1..Len(history) :
            AllDirection(0, p, 1) =>
                history[p].outcome = Return("next", IF p % 2 = 1 THEN "rick" ELSE "morty")
        /\ \A p \in 0..(Len(history) - 2) :
            (p % 2 = 0 /\ AllDirection(0, p, 1) /\ AllDirection(p, 2, 0 - 1)) =>
                Outputs(p, 2) = <<"morty", "rick">>

\* ---------------------------------------------------------------- C12

\* The names of the two direction setters.
Setters == {"set_direction_forward", "set_direction_reverse"}

\* What each kind of call leaves alone, over one step: last' names the call
\* the step made.
FrameStep ==
    /\ last'.op \in Setters =>
        (index' = index /\ elements' = elements /\ length' = length)
    /\ last'.op = "next" => (direction' = direction /\ elements' = elements)
    /\ index' # index => last'.op = "next"

\* C12: the cursor changes only via next(): the two setters leave index, the
\* list and its recorded length unchanged, next() leaves direction and the
\* list unchanged, and direction is +1 or -1 in every reachable state.
C12_Frame == [][FrameStep]_vars /\ [](direction \in {1, 0 - 1})

\* C12 witness: set_direction_reverse was just called after a next() that
\* moved the cursor, and the cursor is still where that next() left it.
C12_Witness ==
    /\ last = Return("set_direction_reverse", None)
    /\ direction = 0 - 1
    /\ Len(history) = 1 /\ history[1].direction = 1
    /\ index = history[1].index /\ index # base
    /\ length = 3

\* ---------------------------------------------------------------- C13

\* The direction each setter sets.
SetterDirection(op) == IF op = "set_direction_forward" THEN 1 ELSE 0 - 1

\* Over one step: a setter called right after the same setter changes
\* nothing, and a next() is made in the direction of the call before it: the
\* setter's own, the previous next()'s, or forward right after construction.
SetterStep ==
    /\ (last.op \in Setters /\ last'.op = last.op) => vars' = vars
    /\ last'.op = "next" =>
        LET d == history'[Len(history')].direction IN
        /\ last.op \in Setters => d = SetterDirection(last.op)
        /\ last.op = "next" => d = history[Len(history)].direction
        /\ last.op = "__init__" => d = 1

\* C13: the setters are idempotent and history-independent: after
\* set_direction_forward the direction is +1 and after set_direction_reverse
\* it is -1 whatever it was before, calling either twice in a row leaves the
\* state of calling it once, and the last setter called before a next()
\* alone determines that next()'s direction.
C13_Setters ==
    /\ [](last.op \in Setters => direction = SetterDirection(last.op))
    /\ [][SetterStep]_vars

\* C13 witness: set_direction_forward was just called on an iterator whose
\* previous next() went in reverse, and the direction is forward.
C13_Witness ==
    /\ last = Return("set_direction_forward", None)
    /\ direction = 1
    /\ Len(history) = 2
    /\ history[1].direction = 1 /\ history[2].direction = 0 - 1

\* ---------------------------------------------------------------- C15

\* C15: over a non-empty list the constructor accepts any integer
\* starting_index without checking it, and the first next() normalizes the
\* cursor: whatever the starting index, negative or >= N included, the
\* cursor is in [0, N) after the first next() and after every later call.
C15_FirstStepNormalizes ==
    length >= 1 =>
        /\ last.op = "__init__" =>
            (last = Return("__init__", None) /\ index \in StartIndexes /\ index = base)
        /\ Len(history) >= 1 =>
            /\ InRange(index)
            /\ \A p \in 1..Len(history) :
                /\ InRange(history[p].index)
                /\ history[p].outcome = Return("next", elements[history[p].index + 1])

\* C15 witness: an iterator over three elements constructed at index -1 or
\* at index 3, stepped once in reverse and once forward, with the cursor in
\* range after each.
C15_Witness ==
    /\ length = 3
    /\ base \in {0 - 1, 3}
    /\ Len(history) = 2
    /\ history[1].direction = 0 - 1 /\ history[2].direction = 1
    /\ InRange(history[1].index) /\ InRange(index)

\* ------------------------------ recipys.sphinx.sqlalchemy.ignore_getattr

\* No BiDirectionalIter is in use: the iterator of the module docstring,
\* just constructed.
IterIdle ==
    /\ elements = <<"rick", "morty">>
    /\ index = DefaultStartingIndex
    /\ direction = 1
    /\ length = 2
    /\ last = Return("__init__", None)
    /\ history = << >>
    /\ base = DefaultStartingIndex

\* The tuples of attribute names a key of the map is bound to.
IgnoreLists == UNION {[1..n -> AttrNames] : n \in 0..Cardinality(AttrNames)}

\* The maps conf.py may bind: empty, or the one key 'UTCTimeMixin'.
IgnoreMaps == {<< >>} \cup {[k \in {"UTCTimeMixin"} |-> l] : l \in IgnoreLists}

SphinxInit ==
    /\ obj \in [AttrNames -> Slots]
    /\ name \in MemberNames
    /\ ignore_errors_for \in IgnoreMaps
    /\ hret = Return("ignore_getattr", None)
    /\ IterIdle

\* ignore_errors_for.get(name, [])
DictGet(m, k) == IF k \in DOMAIN m THEN m[k] ELSE << >>

\* The outcome of getattr(obj, attribute_name).
GetAttr(o, a) == o[a].access

\* obj.__dict__.get(attribute_name).__doc__: the docstring of the object's
\* own entry; for a name that is not in the object's own __dict__ (absent,
\* or defined by a base class) get returns None, whose __doc__ is None.
DictGetDoc(o, a) == IF o[a].where = "own" THEN o[a].doc ELSE None

\* mock_function with its __doc__ set: does nothing, access succeeds.
MockFunction(doc) == [where |-> "own", access |-> "ok", doc |-> doc, stub |-> TRUE]

\* setattr(obj, attribute_name, value)
SetAttr(o, a, v) == [o EXCEPT ![a] = v]

\* The for loop of ignore_getattr over the listed names: the object it
\* leaves and the call's outcome.  An exception other than AttributeError is
\* not caught and ends the call.
RECURSIVE IgnoreLoop(_, _)
IgnoreLoop(o, attrs) ==
    IF attrs = << >> THEN [obj |-> o, outcome |-> Return("ignore_getattr", None)]
    ELSE LET a == Head(attrs) IN
         IF GetAttr(o, a) = "ok" THEN IgnoreLoop(o, Tail(attrs))
         ELSE IF GetAttr(o, a) = "AttributeError"
              THEN IgnoreLoop(SetAttr(o, a, MockFunction(DictGetDoc(o, a))), Tail(attrs))
              ELSE [obj |-> o, outcome |-> Raise("ignore_getattr", "OtherError")]

\* ignore_getattr(ignore_errors_for, app, what, name, obj, skip, options)
ignore_getattr ==
    LET r == IgnoreLoop(obj, DictGet(ignore_errors_for, name)) IN
    /\ obj' = r.obj
    /\ hret' = r.outcome
    /\ UNCHANGED <<name, ignore_errors_for>>
    /\ UNCHANGED vars

SphinxNext == ignore_getattr

SphinxSpec == SphinxInit /\ [][SphinxNext]_svars

\* ---------------------------------------------------------------- C14

\* The attribute names listed for the member name.
Listed == Range(DictGet(ignore_errors_for, name))

\* Over one call that returns: a listed attribute whose access raised
\* AttributeError is now a stub whose access succeeds, and every other
\* attribute is as it was.
PatchedOnlyWhereFailing ==
    \A a \in AttrNames :
        IF a \in Listed /\ obj[a].access = "AttributeError"
        THEN obj'[a].stub /\ obj'[a].access = "ok"
        ELSE obj'[a] = obj[a]

\* Over one call that returns: each stub the call made has the docstring of
\* the attribute it replaced.
StubKeepsDocstring ==
    \A a \in AttrNames :
        (obj'[a].stub /\ ~obj[a].stub) => obj'[a].doc = obj[a].doc

\* C14: ignore_getattr patches the inspected object only where attribute
\* access fails: each attribute listed for the member name whose getattr
\* raises AttributeError is replaced by a no-op stub whose docstring equals
\* the original attribute's docstring; attributes whose access succeeds,
\* attributes not listed, and objects whose name is not a key of the map
\* are left unchanged.
C14_PatchesOnlyFailing ==
    [][hret'.kind = "return" => (PatchedOnlyWhereFailing /\ StubKeepsDocstring)]_svars

====
